---- MODULE Spec2Model ----
(***************************************************************************)
(* State-machine model of the scan/monitor engine of src/src/scanner.py    *)
(* (class IBKRScanner, HeikinAshiCalculator) and of the two GUI entry      *)
(* points of src/src/gui.py that drive it from the foreground.             *)
(*                                                                         *)
(* Program positions are named after the source line of scanner.py at      *)
(* which the thread stands ("L520" = about to execute line 520).  Every    *)
(* read of self.settings / self.results / self._running is a separate      *)
(* step where the code performs a separate attribute load, so that the     *)
(* interleavings the interpreter allows are the interleavings of the model.*)
(***************************************************************************)
EXTENDS Integers, Sequences, FiniteSets, TLC

(***************************************************************************)
(* Bounds of the model.                                                    *)
(***************************************************************************)
MaxSymbols  == 1      \* instruments the upstream scanner can return
MaxMonitors == 2      \* monitor threads alive at the same time
MaxScans    == 3      \* run_scan invocations in one behaviour of Spec
MaxManualScans == 2   \* manual scans in one behaviour of the other specifications
MaxBars     == 1      \* bars in one historical-data reply
MaxUniverse == 2      \* instruments of a universe where several are needed
MaxIdemScans == 3     \* manual scans in one behaviour of SpecIdem
MaxVolume   == 1      \* largest bar volume / min_volume (unit: 100000 shares)
Interval    == 1      \* interval_seconds of start_monitoring
LongInterval == 2     \* interval_seconds where the wait loop is examined
MaxWaitScans == 1     \* run_scan invocations in one behaviour of FairWait

(***************************************************************************)
(* Program constants.                                                      *)
(***************************************************************************)
DefaultMinVolume == 1     \* ScannerSettings.min_volume = 100000 (one unit)
DefaultTimeframe == 2     \* ScannerSettings.timeframe_minutes = 2
OtherTimeframe   == 5     \* another entry of AVAILABLE_TIMEFRAMES
DefaultMinPrice  == 0     \* ScannerSettings.min_price = 0.0
DefaultMaxPrice  == 1     \* ScannerSettings.max_price = 100.0 (one unit)
AVAILABLE_TIMEFRAMES == {1, 2, 3, 5, 10, 15, 30, 60}

VARIABLES
    connected,      \* self.connected
    settings,       \* self.settings (one immutable ScannerSettings object)
    results,        \* self.results: symbol -> ScanResult
    scan_history,   \* self.scan_history: sequence of archived runs
    _callback,      \* self._callback is set
    _running,       \* self._running
    _scan_thread,   \* self._scan_thread: 0 = None, else a monitor thread id
    market_open,    \* what _is_market_open() returns now (wall clock)
    fg,             \* position of the foreground (GUI) thread
    pc,             \* position of every background thread
    loc,            \* local variables of every background thread
    nscans,         \* run_scan invocations so far
    cb_count,       \* invocations of the subscriber callback so far
    cb_last,        \* argument of the last callback invocation
    upstream,       \* what the data source holds (used where it is kept fixed)
    calc            \* one call of a pure function: its arguments and its value

vars == <<connected, settings, results, scan_history, _callback, _running,
          _scan_thread, market_open, fg, pc, loc, nscans, cb_count, cb_last,
          upstream, calc>>

shared == <<connected, settings, results, scan_history, _callback, _running,
            _scan_thread, market_open, fg, nscans, cb_count, cb_last,
            upstream, calc>>

(***************************************************************************)
(* Threads: the monitor threads created by start_monitoring and the one    *)
(* thread the GUI creates for a manual scan (the button stays disabled     *)
(* until that scan has returned).                                          *)
(***************************************************************************)
Monitors == 1..MaxMonitors
Manual   == 0
Threads  == Monitors \cup {Manual}

Symbols  == 1..MaxSymbols

EmptyMap == << >>          \* {} : the empty dict
None     == << >>          \* Optional value: None
Some(x)  == << x >>        \* Optional value: x

(***************************************************************************)
(* ScannerSettings.  Only the fields the engine reads in the modelled      *)
(* code paths are kept.                                                    *)
(***************************************************************************)
ScannerSettings(mv, tf, ha, nm) ==
    [min_price |-> DefaultMinPrice, max_price |-> DefaultMaxPrice,
     min_volume |-> mv, timeframe_minutes |-> tf,
     detect_ha_candle |-> ha, detect_normal_candle |-> nm]

DefaultSettings == ScannerSettings(DefaultMinVolume, DefaultTimeframe, TRUE, TRUE)

\* every combination of the volume threshold and the two toggles
AllSettings ==
    { ScannerSettings(mv, DefaultTimeframe, ha, nm) :
        mv \in 0..MaxVolume, ha \in BOOLEAN, nm \in BOOLEAN }

\* the settings objects used where the toggles are not what is examined
FewSettings ==
    { DefaultSettings, ScannerSettings(0, OtherTimeframe, TRUE, FALSE) }

\* utils.validate_settings: the violated constraints (the market-cap bounds
\* are not among the fields kept here)
validate_settings(s) ==
    (IF s.min_price < 0 THEN {"min_price"} ELSE {})
    \cup (IF s.max_price < s.min_price THEN {"max_price"} ELSE {})
    \cup (IF s.min_volume < 0 THEN {"min_volume"} ELSE {})
    \cup (IF s.timeframe_minutes \notin AVAILABLE_TIMEFRAMES
          THEN {"timeframe_minutes"} ELSE {})

\* what the settings dialog (free-text price entries) and a direct caller of
\* update_settings can pass: the defaults, a price range turned round, a
\* timeframe outside the list
AnySettings ==
    { DefaultSettings,
      [DefaultSettings EXCEPT !.min_price = DefaultMaxPrice + 1],
      [DefaultSettings EXCEPT !.timeframe_minutes = DefaultTimeframe + 2] }

(***************************************************************************)
(* Bars.  A bar is one row of the historical-data frame; today = TRUE      *)
(* when its datetime falls on the current date.  The four candles are      *)
(* one representative of each (normal bullish, HA bullish) combination.    *)
(***************************************************************************)
Candle(o, h, l, c) == [open |-> o, high |-> h, low |-> l, close |-> c]

Candles ==
    { Candle(1, 2, 1, 2),      \* close > open, (o+h+l+c)/4 > open
      Candle(1, 2, 1, 1),      \* close = open, (o+h+l+c)/4 > open
      Candle(2, 3, 0, 3),      \* close > open, (o+h+l+c)/4 = open
      Candle(2, 2, 1, 1) }     \* close < open, (o+h+l+c)/4 < open

Bar(cn, v, td) ==
    [open |-> cn.open, high |-> cn.high, low |-> cn.low, close |-> cn.close,
     volume |-> v, today |-> td]

Bars == { Bar(cn, v, td) : cn \in Candles, v \in 0..MaxVolume, td \in BOOLEAN }

\* bars arrive in time order: no bar of an earlier day after a bar of today
Ordered(df) ==
    \A i \in 1..Len(df) : \A j \in 1..Len(df) :
        (i < j /\ df[i].today) => df[j].today

FramesUpTo(n) ==
    UNION { { df \in [1..k -> Bars] : Ordered(df) } : k \in 0..n }

AllFrames == FramesUpTo(MaxBars)

\* the frames used where the candle arithmetic is not what is examined
FewFrames ==
    { << Bar(Candle(1, 2, 1, 2), MaxVolume, TRUE) >>,
      << Bar(Candle(1, 2, 1, 1), MaxVolume, TRUE) >>,
      << Bar(Candle(2, 3, 0, 3), MaxVolume, TRUE) >>,
      << Bar(Candle(1, 2, 1, 2), 0, TRUE) >> }

\* the frames of Spec: a first candle bullish one way and not the other
MixedFrames ==
    { << Bar(Candle(1, 2, 1, 1), MaxVolume, TRUE) >>,
      << Bar(Candle(2, 3, 0, 3), MaxVolume, TRUE) >> }

(***************************************************************************)
(* HeikinAshiCalculator.  Prices are integers; the smoothed values are     *)
(* kept multiplied by Scale so that the divisions by 4 and by 2 are exact. *)
(***************************************************************************)
RECURSIVE Pow2(_)
Pow2(n) == IF n = 0 THEN 1 ELSE 2 * Pow2(n - 1)

Scale == 4 * Pow2(MaxBars + 1)

RECURSIVE ha_open(_, _)
\* ha_open[0] = open[0]; ha_open[i] = (ha_open[i-1] + ha_close[i-1]) / 2
ha_close(df, i) ==
    (Scale * (df[i].open + df[i].high + df[i].low + df[i].close)) \div 4
ha_open(df, i) ==
    IF i = 1 THEN Scale * df[1].open
    ELSE (ha_open(df, i - 1) + ha_close(df, i - 1)) \div 2

\* calculate with the first ha_open taken from the close of the first bar
calculate_SeedClose(df) ==
    [i \in 1..Len(df) |->
        [ha_open  |-> IF i = 1 THEN Scale * df[1].close ELSE ha_open(df, i),
         ha_close |-> ha_close(df, i)]]

\* 78-103: an empty frame is returned as it is; otherwise the columns
\* ha_close (line 84) and ha_open (lines 87-95) are added, row by row
calculate(df) ==
    [i \in 1..Len(df) |->
        [ha_open |-> ha_open(df, i), ha_close |-> ha_close(df, i)]]

\* column.iloc[index] for an index the column has: positions count from 0,
\* a negative index counts from the end
iloc(column, index) ==
    IF index < 0 THEN column[Len(column) + index + 1] ELSE column[index + 1]

\* is_bullish with "greater or equal" for "greater"
is_bullish_Ge(ha_df, index) ==
    IF ha_df = << >> THEN FALSE
    ELSE iloc(ha_df, index).ha_close >= iloc(ha_df, index).ha_open

\* 119-122: is_bullish(ha_df, index); an empty frame (which has no ha_close
\* column either) gives False
is_bullish(ha_df, index) ==
    IF ha_df = << >> THEN FALSE
    ELSE iloc(ha_df, index).ha_close > iloc(ha_df, index).ha_open

(***************************************************************************)
(* The percent change of lines 474-480.  The quotient is kept as the pair   *)
(* of its numerator and denominator, so that no rounding is modelled;       *)
(* mkt_data is None when the market-data reply holds no last price (line    *)
(* 476 then falls back to the last close).                                  *)
(***************************************************************************)
Quotient(n, d) == [num |-> n, den |-> d]
Zero == Quotient(0, 1)
SameQuotient(a, b) == a.num * b.den = b.num * a.den

\* line 475 taking the close of the last bar whatever the length
change_percent_LastBar(df, mkt_data) ==
    IF df # << >>
    THEN LET prev_close == iloc(df, -1).close
             last_price == IF mkt_data = None THEN iloc(df, -1).close
                           ELSE mkt_data[1]
         IN  IF prev_close > 0
             THEN Quotient((last_price - prev_close) * 100, prev_close)
             ELSE Zero
    ELSE Zero

change_percent(df, mkt_data) ==
    IF df # << >>                                                   \* 474
    THEN LET prev_close == IF Len(df) > 1 THEN iloc(df, -2).close    \* 475
                           ELSE iloc(df, -1).close
             last_price == IF mkt_data = None THEN iloc(df, -1).close
                           ELSE mkt_data[1]                          \* 476
         IN  IF prev_close > 0                                       \* 477
             THEN Quotient((last_price - prev_close) * 100, prev_close)
             ELSE Zero
    ELSE Zero                                                        \* 479

(***************************************************************************)
(* _analyze_first_candle: (ha_bullish, normal_bullish, first_candle_volume)*)
(* s is the settings object read at line 423.                              *)
(***************************************************************************)
today_df(df) == SelectSeq(df, LAMBDA b : b.today)

_analyze_first_candle(df, s) ==
    LET tdf == today_df(df) IN
    IF df = << >> \/ tdf = << >>
    THEN [ha |-> FALSE, nb |-> FALSE, vol |-> 0]
    ELSE [ha  |-> IF s.detect_ha_candle
                  THEN is_bullish(calculate(tdf), 0)
                  ELSE FALSE,
          nb  |-> tdf[1].close > tdf[1].open,
          vol |-> tdf[1].volume]

(***************************************************************************)
(* ScanResult, as built at lines 485-498.  Of parameters_used (line 483)   *)
(* the timeframe tag is kept; prices and quotes are left out.              *)
(***************************************************************************)
ScanResult(sym, ha, nb, vol, s) ==
    [symbol |-> sym, ha_bullish |-> ha, normal_bullish |-> nb,
     first_candle_volume |-> vol,
     parameters_used |-> [TF |-> s.timeframe_minutes]]

\* one entry of scan_history (lines 521-525); the wall-clock stamp is left out
ScanRun(s, res) == [parameters |-> s.timeframe_minutes, results |-> res]

(***************************************************************************)
(* Local variables of a thread.                                            *)
(*   contracts    the part of the universe the for loop has not visited    *)
(*   sym, df      contract.symbol and the frame of _scan_stock; the frame  *)
(*                is kept until _analyze_first_candle has read it (what    *)
(*                lines 474-476 compute from it is not part of ScanResult  *)
(*                here)                                                    *)
(*   no_today     today_df.empty, as tested at line 411                    *)
(*   ha, nb, vol  ha_bullish, normal_bullish, first_candle_volume          *)
(*   minvol       the min_volume loaded by the comparison of line 451      *)
(*   ret, retline value and line of the return statement of _scan_stock    *)
(*   new_results  new_results of run_scan                                  *)
(*   i            sleeps done by the wait loop of monitor_loop             *)
(*   seen         the settings objects this run_scan has loaded so far     *)
(*   fetch_failed _fetch_stock_universe returned [] because the engine was *)
(*                not connected (line 234) or the request raised (255-257) *)
(***************************************************************************)
InitLoc ==
    [contracts |-> << >>, sym |-> 0, df |-> << >>,
     no_today |-> FALSE, ha |-> FALSE, nb |-> FALSE, vol |-> 0, minvol |-> 0,
     ret |-> None, retline |-> 0,
     new_results |-> EmptyMap, i |-> 0, seen |-> {}, fetch_failed |-> FALSE]

\* the locals of _scan_stock, dropped when the call has returned
ClearStock(l) ==
    [l EXCEPT !.sym = 0, !.df = << >>, !.no_today = FALSE, !.ha = FALSE,
              !.nb = FALSE, !.vol = 0, !.minvol = 0, !.ret = None,
              !.retline = 0]

Goto(t, label) == pc' = [pc EXCEPT ![t] = label]
SetLoc(t, l)   == loc' = [loc EXCEPT ![t] = l]

\* a load of self.settings by thread t
Load(l) == [l EXCEPT !.seen = @ \cup {settings}]

\* return None from _scan_stock at the given line
ReturnNone(t, l, line) ==
    /\ Goto(t, "L534")
    /\ SetLoc(t, [l EXCEPT !.ret = None, !.retline = line])

RECURSIVE SeqOf(_)
\* a set of symbols as an ascending sequence
SeqOf(S) ==
    IF S = {} THEN << >>
    ELSE LET m == CHOOSE x \in S : \A y \in S : x <= y
         IN  << m >> \o SeqOf(S \ {m})

\* what reqScannerData can return (a failure is caught and gives [])
Universes == { SeqOf(S) : S \in SUBSET Symbols }

\* no instrument, or the one instrument
OneSymbol == { << >>, << 1 >> }

\* the universes of up to MaxUniverse instruments
Pairs == { SeqOf(S) : S \in SUBSET (1..MaxUniverse) }

\* the reply that stands for a request that raised (lines 255-257)
FetchError == << 0 >>

\* the replies to reqScannerData: a universe, or an error
Replies(universes) == universes \cup {FetchError}

\* the data source before the first UpstreamChange: no instrument
NoUpstream ==
    [universe |-> << >>, frame |-> << >>, at |-> 0, hist |-> 0,
     live |-> EmptyMap]

(***************************************************************************)
(* Calls of the pure functions, one per behaviour of SpecCalc: calc holds   *)
(* the function, its arguments and, when done, its value.                   *)
(*   fn        "calculate", "is_bullish" or "change_percent"                *)
(*   df        the frame passed to calculate / used by lines 474-480        *)
(*   ha_df     the frame passed to is_bullish; the value of calculate       *)
(*   index     the index passed to is_bullish                               *)
(*   last      mkt_data's last price (None when there is none)              *)
(*   bullish   the value of is_bullish                                      *)
(*   pct       change_percent of lines 474-480                              *)
(***************************************************************************)
NoCalc ==
    [fn |-> "none", df |-> << >>, ha_df |-> << >>, index |-> 0, last |-> None,
     bullish |-> FALSE, pct |-> Zero, done |-> FALSE]

\* the longest frame passed to the pure functions
CalcLen == MaxBars + 2

\* the frames of up to CalcLen bars of today over the four candles
CalcFrames ==
    UNION { [1..k -> { Bar(cn, MaxVolume, TRUE) : cn \in Candles }] :
              k \in 0..CalcLen }

\* closes in tenths of a currency unit: none, 7.6, 8.0, 10.0
PctCloses == {0, 76, 80, 100}

PctFrames ==
    UNION { [1..k -> { Bar(Candle(c, c, c, c), MaxVolume, TRUE) :
                         c \in PctCloses }] : k \in 0..CalcLen }

\* the last price of the market-data reply: absent, 7.6, 10.0
PctLasts == { None, Some(76), Some(100) }

\* the indices a frame of n rows has (any index finds an empty frame)
Indices(n) == IF n = 0 THEN {-1} ELSE (0 - n)..(n - 1)

CalcCalls ==
    { [NoCalc EXCEPT !.fn = "calculate", !.df = df] : df \in CalcFrames }
    \cup UNION { { [NoCalc EXCEPT !.fn = "is_bullish",
                                  !.ha_df = calculate(df), !.index = i] :
                     i \in Indices(Len(df)) } : df \in CalcFrames }
    \cup { [NoCalc EXCEPT !.fn = "change_percent", !.df = df, !.last = m] :
             df \in PctFrames, m \in PctLasts }

\* the engine after construction (lines 142-153)
InitEngine ==
    /\ connected = FALSE
    /\ settings = DefaultSettings
    /\ results = EmptyMap
    /\ scan_history = << >>
    /\ _callback = FALSE
    /\ _running = FALSE
    /\ _scan_thread = 0
    /\ market_open = FALSE
    /\ fg = "idle"
    /\ pc = [t \in Threads |-> "dead"]
    /\ loc = [t \in Threads |-> InitLoc]
    /\ nscans = 0
    /\ cb_count = 0
    /\ cb_last = EmptyMap
    /\ upstream = NoUpstream

Init ==
    /\ InitEngine
    /\ calc = NoCalc

\* the engine after construction and one call of a pure function to be made
InitCalc ==
    /\ InitEngine
    /\ calc \in CalcCalls

(***************************************************************************)
(* run_scan, lines 506-544.                                                *)
(***************************************************************************)
\* where the caller of run_scan goes on: the manual thread ends, the
\* monitor loop enters its wait loop (line 568)
Return(t) ==
    /\ Goto(t, IF t = Manual THEN "dead" ELSE "L569")
    /\ SetLoc(t, InitLoc)

\* run_scan without the test of line 513
L513_NoCheck(t) ==
    /\ pc[t] = "L513"
    /\ Goto(t, "L520")
    /\ UNCHANGED <<loc, shared>>

\* 513: if not self.connected
L513(t) ==
    /\ pc[t] = "L513"
    /\ Goto(t, IF connected THEN "L520" ELSE "L515")
    /\ UNCHANGED <<loc, shared>>

\* 515: return {}
L515(t) ==
    /\ pc[t] = "L515"
    /\ Return(t)
    /\ UNCHANGED shared

\* line 520 without its test: the live set is archived even when empty
L520_Always(t) ==
    /\ pc[t] = "L520"
    /\ Goto(t, "L521")
    /\ UNCHANGED <<loc, shared>>

\* 520: if self.results
L520(t) ==
    /\ pc[t] = "L520"
    /\ Goto(t, IF results # EmptyMap THEN "L521" ELSE "L528")
    /\ UNCHANGED <<loc, shared>>

\* 521-525: self.scan_history.append({... dict(self.results)})
L521(t) ==
    /\ pc[t] = "L521"
    /\ scan_history' = Append(scan_history, ScanRun(settings, results))
    /\ SetLoc(t, Load(loc[t]))
    /\ Goto(t, "L528")
    /\ UNCHANGED <<connected, settings, results, _callback, _running,
                   _scan_thread, market_open, fg, nscans, cb_count, cb_last, upstream, calc>>

\* 532: for contract in contracts -- the next contract enters _scan_stock
\* (line 443), an exhausted list leads to line 538
ForContract(t, l) ==
    IF l.contracts = << >>
    THEN /\ Goto(t, "L538")
         /\ SetLoc(t, l)
    ELSE /\ Goto(t, "L443")
         /\ SetLoc(t, [l EXCEPT !.sym = Head(l.contracts),
                                !.contracts = Tail(l.contracts)])

\* 528-532: contracts = self._fetch_stock_universe(); new_results = {}
\* universes: the replies reqScannerData can give
L528(t, universes) ==
    /\ pc[t] = "L528"
    /\ \E u \in universes :
         ForContract(t, IF connected /\ u # FetchError
                        THEN [Load(loc[t]) EXCEPT !.contracts = u,
                                                  !.new_results = EmptyMap,
                                                  !.fetch_failed = FALSE]
                        ELSE [(IF connected THEN Load(loc[t]) ELSE loc[t])
                                 EXCEPT !.contracts = << >>,
                                        !.new_results = EmptyMap,
                                        !.fetch_failed = TRUE])
    /\ UNCHANGED shared

\* 534-536, 532: if result: new_results[result.symbol] = result
L534(t) ==
    /\ pc[t] = "L534"
    /\ LET l == loc[t]
           nr == IF l.ret # None
                 THEN (l.ret[1].symbol :> l.ret[1]) @@ l.new_results
                 ELSE l.new_results
       IN  ForContract(t, [ClearStock(l) EXCEPT !.new_results = nr])
    /\ UNCHANGED shared

\* 538: self.results = new_results
L538(t) ==
    /\ pc[t] = "L538"
    /\ results' = loc[t].new_results
    /\ Goto(t, "L540")
    /\ UNCHANGED <<loc, connected, settings, scan_history, _callback, _running,
                   _scan_thread, market_open, fg, nscans, cb_count, cb_last, upstream, calc>>

\* an exception leaves run_scan and its caller, which has no handler: the
\* thread ends
Raise(t) ==
    /\ Goto(t, "dead")
    /\ SetLoc(t, InitLoc)

\* lines 540-544 without the call of the callback
L540_Silent(t) ==
    /\ pc[t] = "L540"
    /\ Return(t)
    /\ UNCHANGED shared

\* 540-544: if self._callback: self._callback(self.results); return self.results
\* the callback returns, or raises
L540(t) ==
    /\ pc[t] = "L540"
    /\ IF _callback
       THEN /\ cb_count' = cb_count + 1
            /\ cb_last' = results
            /\ Return(t) \/ Raise(t)
       ELSE /\ UNCHANGED <<cb_count, cb_last>>
            /\ Return(t)
    /\ UNCHANGED <<connected, settings, results, scan_history, _callback,
                   _running, _scan_thread, market_open, fg, nscans, upstream, calc>>

(***************************************************************************)
(* _scan_stock, lines 429-504.  The conditions of the if statements are    *)
(* operators of the settings object loaded by that statement.              *)
(***************************************************************************)
\* the comparison of line 451 turned round
VolumeTooLow_Gt(vol, s) == vol > s.min_volume
VolumeTooLow(vol, s) == vol < s.min_volume                     \* 451
Cond455(s, ha) == s.detect_ha_candle /\ ~ha                     \* 455
\* line 456 with "or" for "and"
Cond456_Or(s, nb) == s.detect_normal_candle \/ ~nb
Cond456(s, nb) == s.detect_normal_candle /\ ~nb                 \* 456
Cond458(s)     == ~s.detect_normal_candle                       \* 458
Cond461(s, nb) == s.detect_normal_candle /\ ~nb                 \* 461
Cond462(s, ha) == s.detect_ha_candle /\ ~ha                     \* 462
Cond464(s)     == ~s.detect_ha_candle                           \* 464

\* 443-445: df = self._get_historical_bars(contract); if df.empty: return None
\* frames: what reqHistoricalData can return (a failure gives an empty frame)
L443(t, frames) ==
    /\ pc[t] = "L443"
    /\ \E f \in frames :
         LET l  == IF connected THEN Load(loc[t]) ELSE loc[t]
             df == IF connected THEN f ELSE << >>
         IN  IF df = << >>
             THEN ReturnNone(t, l, 445)
             ELSE /\ Goto(t, "L448")
                  /\ SetLoc(t, [l EXCEPT !.df = df])
    /\ UNCHANGED shared

\* 448: ha_bullish, normal_bullish, first_candle_volume = self._analyze_first_candle(df)
L448(t) ==
    /\ pc[t] = "L448"
    /\ LET a == _analyze_first_candle(loc[t].df, settings)
           l == IF today_df(loc[t].df) # << >> THEN Load(loc[t]) ELSE loc[t]
       IN  SetLoc(t, [l EXCEPT !.ha = a.ha, !.nb = a.nb, !.vol = a.vol,
                               !.no_today = (today_df(loc[t].df) = << >>),
                               !.df = << >>])
    /\ Goto(t, "L451")
    /\ UNCHANGED shared

\* 451-452: if first_candle_volume < self.settings.min_volume: return None
L451(t) ==
    /\ pc[t] = "L451"
    /\ LET l == [Load(loc[t]) EXCEPT !.minvol = settings.min_volume]
       IN  IF VolumeTooLow(l.vol, settings)
           THEN ReturnNone(t, l, 452)
           ELSE Goto(t, "L455") /\ SetLoc(t, l)
    /\ UNCHANGED shared

\* 455: if self.settings.detect_ha_candle and not ha_bullish
L455(t) ==
    /\ pc[t] = "L455"
    /\ Goto(t, IF Cond455(settings, loc[t].ha) THEN "L456" ELSE "L461")
    /\ SetLoc(t, Load(loc[t]))
    /\ UNCHANGED shared

\* 456-457: if self.settings.detect_normal_candle and not normal_bullish: return None
L456(t) ==
    /\ pc[t] = "L456"
    /\ IF Cond456(settings, loc[t].nb)
       THEN ReturnNone(t, Load(loc[t]), 457)
       ELSE Goto(t, "L458") /\ SetLoc(t, Load(loc[t]))
    /\ UNCHANGED shared

\* 458-459: elif not self.settings.detect_normal_candle: return None
L458(t) ==
    /\ pc[t] = "L458"
    /\ IF Cond458(settings)
       THEN ReturnNone(t, Load(loc[t]), 459)
       ELSE Goto(t, "L461") /\ SetLoc(t, Load(loc[t]))
    /\ UNCHANGED shared

\* 461: if self.settings.detect_normal_candle and not normal_bullish
L461(t) ==
    /\ pc[t] = "L461"
    /\ Goto(t, IF Cond461(settings, loc[t].nb) THEN "L462" ELSE "L468")
    /\ SetLoc(t, Load(loc[t]))
    /\ UNCHANGED shared

\* 462-463: if self.settings.detect_ha_candle and not ha_bullish: return None
L462(t) ==
    /\ pc[t] = "L462"
    /\ IF Cond462(settings, loc[t].ha)
       THEN ReturnNone(t, Load(loc[t]), 463)
       ELSE Goto(t, "L464") /\ SetLoc(t, Load(loc[t]))
    /\ UNCHANGED shared

\* 464-465: elif not self.settings.detect_ha_candle: return None
L464(t) ==
    /\ pc[t] = "L464"
    /\ IF Cond464(settings)
       THEN ReturnNone(t, Load(loc[t]), 465)
       ELSE Goto(t, "L468") /\ SetLoc(t, Load(loc[t]))
    /\ UNCHANGED shared

\* 468-500: market and fundamental data are fetched, line 483 loads
\* self.settings for the parameters string; return ScanResult(...)
L468(t) ==
    /\ pc[t] = "L468"
    /\ LET l == Load(loc[t])
           r == ScanResult(l.sym, l.ha, l.nb, l.vol, settings)
       IN  SetLoc(t, [l EXCEPT !.ret = Some(r), !.retline = 500])
    /\ Goto(t, "L534")
    /\ UNCHANGED shared

\* the handler of lines 502-504 placed around the for loop of run_scan: the
\* exception ends the loop
L502_Abort(t) ==
    /\ pc[t] \in {"L448", "L468"}
    /\ Goto(t, "L538")
    /\ SetLoc(t, ClearStock(loc[t]))
    /\ UNCHANGED shared

\* 502-504: except Exception: log, return None.  The statements of the try
\* block that compute on the fetched data can raise: _analyze_first_candle
\* (line 448) and the arithmetic on quotes and bars of lines 468-498.
L502(t) ==
    /\ pc[t] \in {"L448", "L468"}
    /\ ReturnNone(t, [loc[t] EXCEPT !.df = << >>], 504)
    /\ UNCHANGED shared

_scan_stock(t, frames) ==
    \/ L443(t, frames)
    \/ L502(t)
    \/ L448(t)
    \/ L451(t)
    \/ L455(t)
    \/ L456(t)
    \/ L458(t)
    \/ L461(t)
    \/ L462(t)
    \/ L464(t)
    \/ L468(t)

\* run_scan where no statement of _scan_stock raises
run_scan_ok(t, universes, frames) ==
    \/ L513(t)
    \/ L515(t)
    \/ L520(t)
    \/ L521(t)
    \/ L528(t, universes)
    \/ L443(t, frames)
    \/ L448(t)
    \/ L451(t)
    \/ L455(t)
    \/ L456(t)
    \/ L458(t)
    \/ L461(t)
    \/ L462(t)
    \/ L464(t)
    \/ L468(t)
    \/ L534(t)
    \/ L538(t)
    \/ L540(t)

run_scan(t, universes, frames) ==
    \/ L513(t)
    \/ L515(t)
    \/ L520(t)
    \/ L521(t)
    \/ L528(t, universes)
    \/ _scan_stock(t, frames)
    \/ L534(t)
    \/ L538(t)
    \/ L540(t)

(***************************************************************************)
(* monitor_loop, lines 555-571.                                            *)
(***************************************************************************)
\* 561: while self._running  (leaving the loop ends the thread)
L561(t) ==
    /\ pc[t] = "L561"
    /\ Goto(t, IF _running THEN "L562" ELSE "dead")
    /\ UNCHANGED <<loc, shared>>

\* lines 562-565 without the test of the market clock
L562_NoClock(t, limit) ==
    /\ pc[t] = "L562"
    /\ nscans < limit
    /\ nscans' = nscans + 1
    /\ Goto(t, "L513")
    /\ UNCHANGED <<loc, connected, settings, results, scan_history, _callback,
                   _running, _scan_thread, market_open, fg, cb_count, cb_last,
                   upstream, calc>>

\* 562-565: if self._is_market_open(): self.run_scan() else: log
\* limit: the scans one behaviour holds
L562(t, limit) ==
    /\ pc[t] = "L562"
    /\ IF market_open
       THEN /\ nscans < limit
            /\ nscans' = nscans + 1
            /\ Goto(t, "L513")
       ELSE /\ Goto(t, "L569")
            /\ UNCHANGED nscans
    /\ UNCHANGED <<loc, connected, settings, results, scan_history, _callback,
                   _running, _scan_thread, market_open, fg, cb_count, cb_last, upstream, calc>>

\* the wait loop without the test of line 569
L569_NoBreak(t) ==
    /\ pc[t] = "L569"
    /\ Goto(t, "L571")
    /\ UNCHANGED <<loc, shared>>

\* 568-570: for _ in range(interval_seconds): if not self._running: break
L569(t) ==
    /\ pc[t] = "L569"
    /\ Goto(t, IF ~_running THEN "L561" ELSE "L571")
    /\ UNCHANGED <<loc, shared>>

\* 571: time.sleep(1) has elapsed; next iteration of the for loop, or the
\* loop is exhausted and control is back at line 561
\* interval: interval_seconds
L571(t, interval) ==
    /\ pc[t] = "L571"
    /\ IF loc[t].i + 1 >= interval
       THEN Goto(t, "L561") /\ SetLoc(t, [loc[t] EXCEPT !.i = 0])
       ELSE Goto(t, "L569") /\ SetLoc(t, [loc[t] EXCEPT !.i = @ + 1])
    /\ UNCHANGED shared

\* the positions of a monitor thread outside run_scan
InLoop == {"L561", "L562", "L569", "L571"}

monitor_loop(t, limit, interval) ==
    \/ L561(t)
    \/ L562(t, limit)
    \/ L569(t)
    \/ L571(t, interval)

(***************************************************************************)
(* Operations the foreground thread invokes.                               *)
(***************************************************************************)
\* connect, lines 155-178: success or failure of IB.connect
connect ==
    /\ fg = "idle"
    /\ \E ok \in BOOLEAN : connected' = ok
    /\ UNCHANGED <<settings, results, scan_history, _callback, _running,
                   _scan_thread, market_open, fg, pc, loc, nscans, cb_count,
                   cb_last, upstream, calc>>

\* disconnect that also drops the live set
disconnect_Clear ==
    /\ fg = "idle"
    /\ connected
    /\ connected' = FALSE
    /\ results' = EmptyMap
    /\ UNCHANGED <<settings, scan_history, _callback, _running,
                   _scan_thread, market_open, fg, pc, loc, nscans, cb_count,
                   cb_last, upstream, calc>>

\* disconnect, lines 180-185
disconnect ==
    /\ fg = "idle"
    /\ connected
    /\ connected' = FALSE
    /\ UNCHANGED <<settings, results, scan_history, _callback, _running,
                   _scan_thread, market_open, fg, pc, loc, nscans, cb_count,
                   cb_last, upstream, calc>>

\* set_callback, lines 187-189
set_callback ==
    /\ fg = "idle"
    /\ ~_callback
    /\ _callback' = TRUE
    /\ UNCHANGED <<connected, settings, results, scan_history, _running,
                   _scan_thread, market_open, fg, pc, loc, nscans, cb_count,
                   cb_last, upstream, calc>>

\* update_settings, lines 191-194: S is what the caller may pass
update_settings(S) ==
    /\ fg = "idle"
    /\ \E s \in S \ {settings} : settings' = s
    /\ UNCHANGED <<connected, results, scan_history, _callback, _running,
                   _scan_thread, market_open, fg, pc, loc, nscans, cb_count,
                   cb_last, upstream, calc>>

\* start_monitoring, lines 546-575: a new thread at the head of monitor_loop
FreeSlot == CHOOSE t \in Monitors :
                pc[t] = "dead" /\ \A u \in Monitors : pc[u] = "dead" => t <= u

start_monitoring ==
    /\ fg = "idle"
    /\ \E t \in Monitors : pc[t] = "dead"
    /\ _running' = TRUE
    /\ _scan_thread' = FreeSlot
    /\ pc' = [pc EXCEPT ![FreeSlot] = "L561"]
    /\ loc' = [loc EXCEPT ![FreeSlot] = InitLoc]
    /\ UNCHANGED <<connected, settings, results, scan_history, _callback,
                   market_open, fg, nscans, cb_count, cb_last, upstream, calc>>

\* line 579 writing the negation of the flag
L579_Flip ==
    /\ fg = "idle"
    /\ _running' = ~_running
    /\ fg' = IF _scan_thread = 0 THEN "idle"
             ELSE IF _running THEN "L581" ELSE "L581s"
    /\ UNCHANGED <<connected, settings, results, scan_history, _callback,
                   _scan_thread, market_open, pc, loc, nscans, cb_count,
                   cb_last, upstream, calc>>

\* stop_monitoring, lines 579-580: clear the flag, then join if a thread was
\* ever started.  At the join fg is "L581", or "L581s" when the call found
\* _running already false.
L579 ==
    /\ fg = "idle"
    /\ _running' = FALSE
    /\ fg' = IF _scan_thread = 0 THEN "idle"
             ELSE IF _running THEN "L581" ELSE "L581s"
    /\ UNCHANGED <<connected, settings, results, scan_history, _callback,
                   _scan_thread, market_open, pc, loc, nscans, cb_count,
                   cb_last, upstream, calc>>

\* 581: self._scan_thread.join(timeout=5) returns because the thread ended
JoinExited ==
    /\ fg \in {"L581", "L581s"}
    /\ pc[_scan_thread] = "dead"
    /\ fg' = "idle"
    /\ UNCHANGED <<connected, settings, results, scan_history, _callback,
                   _running, _scan_thread, market_open, pc, loc, nscans,
                   cb_count, cb_last, upstream, calc>>

\* 581: the join returns because its five seconds have elapsed
JoinTimeout ==
    /\ fg \in {"L581", "L581s"}
    /\ pc[_scan_thread] # "dead"
    /\ fg' = "idle"
    /\ UNCHANGED <<connected, settings, results, scan_history, _callback,
                   _running, _scan_thread, market_open, pc, loc, nscans,
                   cb_count, cb_last, upstream, calc>>

stop_monitoring ==
    \/ L579
    \/ JoinExited
    \/ JoinTimeout

\* ScannerGUI._toggle_scan (gui.py 834-848): is_scanning, which the GUI sets
\* with every call, has the value of _running; the engine is stopped when
\* it runs and started when it does not.  The five seconds of the join
\* expire only on a thread that is inside run_scan: a thread in its loop
\* sees the cleared flag within a second (lines 561, 569).
_toggle_scan ==
    \/ ~_running /\ start_monitoring
    \/ _running /\ L579
    \/ JoinExited
    \/ pc[_scan_thread] \notin InLoop /\ JoinTimeout

\* ScannerGUI._run_single_scan (gui.py 850-862): a thread that calls run_scan
\* limit: the scans one behaviour holds
_run_single_scan(limit) ==
    /\ fg = "idle"
    /\ pc[Manual] = "dead"
    /\ nscans < limit
    /\ nscans' = nscans + 1
    /\ pc' = [pc EXCEPT ![Manual] = "L513"]
    /\ loc' = [loc EXCEPT ![Manual] = InitLoc]
    /\ UNCHANGED <<connected, settings, results, scan_history, _callback,
                   _running, _scan_thread, market_open, fg, cb_count, cb_last, upstream, calc>>

\* the data source changes between two scans: another universe, other bars.
\* upstream keeps what the engine held at that moment (scans started so
\* far, length of the history, live set).
UpstreamChange(universes, frames) ==
    /\ fg = "idle"
    /\ connected
    /\ pc[Manual] = "dead"
    /\ \E u \in universes, f \in frames :
         upstream' = [universe |-> u, frame |-> f, at |-> nscans,
                      hist |-> Len(scan_history), live |-> results]
    /\ UNCHANGED <<connected, settings, results, scan_history, _callback,
                   _running, _scan_thread, market_open, fg, pc, loc, nscans,
                   cb_count, cb_last, calc>>

\* the wall clock crosses 09:30 (Eastern) of a weekday: the session opens
MarketClock ==
    /\ ~market_open
    /\ market_open' = TRUE
    /\ UNCHANGED <<connected, settings, results, scan_history, _callback,
                   _running, _scan_thread, fg, pc, loc, nscans, cb_count,
                   cb_last, upstream, calc>>

(***************************************************************************)
(* Spec: the monitor threads, a manual scan and the foreground operations  *)
(* that start and stop them, under the settings of construction.  As       *)
(* _toggle_scan does, stop_monitoring is called while the engine runs; no  *)
(* request raises.                                                         *)
(***************************************************************************)
Next ==
    \/ connect
    \/ disconnect
    \/ start_monitoring
    \/ (_running \/ fg # "idle") /\ stop_monitoring
    \/ _run_single_scan(MaxScans)
    \/ MarketClock
    \/ \E t \in Threads : run_scan_ok(t, Universes, MixedFrames)
    \/ \E t \in Monitors : monitor_loop(t, MaxScans, Interval)

Spec == Init /\ [][Next]_vars

(***************************************************************************)
(* SpecSettings: manual scans with update_settings, set_callback, connect  *)
(* and disconnect running concurrently with the scan.                      *)
(***************************************************************************)
NextSettings ==
    \/ connect
    \/ disconnect
    \/ set_callback
    \/ update_settings(FewSettings)
    \/ _run_single_scan(MaxManualScans)
    \/ run_scan(Manual, Replies(OneSymbol), FewFrames)

SpecSettings == Init /\ [][NextSettings]_vars

(***************************************************************************)
(* SpecSeq: one manual scan at a time and a caller that replaces the       *)
(* settings only between two scans, with every combination of the toggles  *)
(* and the volume threshold and with every frame.                          *)
(***************************************************************************)
NextSeq ==
    \/ connect
    \/ pc[Manual] = "dead" /\ update_settings(AllSettings)
    \/ _run_single_scan(MaxManualScans)
    \/ run_scan(Manual, Replies(OneSymbol), AllFrames)

SpecSeq == Init /\ [][NextSeq]_vars

(***************************************************************************)
(* SpecApi: manual scans with a caller that passes any settings object to  *)
(* update_settings.                                                        *)
(***************************************************************************)
NextApi ==
    \/ connect
    \/ update_settings(AnySettings)
    \/ _run_single_scan(MaxManualScans)
    \/ run_scan(Manual, Replies(OneSymbol), MixedFrames)

SpecApi == Init /\ [][NextApi]_vars

(***************************************************************************)
(* SpecPairs: manual scans over universes of several instruments, where    *)
(* the evaluation of an instrument can raise.                              *)
(***************************************************************************)
NextPairs ==
    \/ connect
    \/ _run_single_scan(MaxManualScans)
    \/ run_scan(Manual, Replies(Pairs), MixedFrames)

SpecPairs == Init /\ [][NextPairs]_vars

(***************************************************************************)
(* SpecIdem: manual scans one after the other over a data source that      *)
(* changes only between scans; the connection stays up and no request      *)
(* fails.                                                                  *)
(***************************************************************************)
NextIdem ==
    \/ ~connected /\ connect
    \/ UpstreamChange(OneSymbol, FewFrames)
    \/ _run_single_scan(MaxIdemScans)
    \/ run_scan_ok(Manual, {upstream.universe}, {upstream.frame})

SpecIdem == Init /\ [][NextIdem]_vars

(***************************************************************************)
(* SpecMonitor: the monitor threads with a registered callback, started    *)
(* and stopped in any order.                                               *)
(***************************************************************************)
NextMonitor ==
    \/ connect
    \/ set_callback
    \/ start_monitoring
    \/ stop_monitoring
    \/ MarketClock
    \/ \E t \in Monitors : run_scan(t, Replies(OneSymbol), MixedFrames)
    \/ \E t \in Monitors : monitor_loop(t, MaxManualScans, Interval)

SpecMonitor == Init /\ [][NextMonitor]_vars

(***************************************************************************)
(* FairTick: the ticks of the monitor threads of an engine that is not     *)
(* connected (run_scan returns at line 515).  Every monitor thread that    *)
(* can take a step eventually takes it: the scheduler runs it and          *)
(* time.sleep returns.                                                     *)
(***************************************************************************)
Tick(t) ==
    \/ L513(t)
    \/ L515(t)
    \/ monitor_loop(t, MaxScans, Interval)

NextTick ==
    \/ start_monitoring
    \/ stop_monitoring
    \/ MarketClock
    \/ \E t \in Monitors : Tick(t)

FairTick ==
    /\ Init
    /\ [][NextTick]_vars
    /\ \A t \in Monitors : WF_vars(Tick(t))

(***************************************************************************)
(* SpecOps: every operation of the engine called from the foreground, in    *)
(* any order, with manual scans and with the monitor threads ticking while  *)
(* the market is closed.  connect, disconnect, set_callback and             *)
(* update_settings are called between two manual scans (SpecSettings has    *)
(* them during a scan).                                                     *)
(***************************************************************************)
NextOps ==
    \/ pc[Manual] = "dead" /\ connect
    \/ pc[Manual] = "dead" /\ disconnect
    \/ pc[Manual] = "dead" /\ set_callback
    \/ pc[Manual] = "dead" /\ update_settings(FewSettings)
    \/ start_monitoring
    \/ stop_monitoring
    \/ _run_single_scan(MaxManualScans)
    \/ run_scan_ok(Manual, OneSymbol, MixedFrames)
    \/ \E t \in Monitors : monitor_loop(t, MaxManualScans, Interval)

SpecOps == Init /\ [][NextOps]_vars

(***************************************************************************)
(* SpecToggle: the monitor threads started and stopped by the button of    *)
(* the GUI only, so that start_monitoring is never called on a running     *)
(* engine; no manual scan.                                                  *)
(***************************************************************************)
NextToggle ==
    \/ connect
    \/ set_callback
    \/ _toggle_scan
    \/ MarketClock
    \/ \E t \in Monitors : run_scan_ok(t, OneSymbol, MixedFrames)
    \/ \E t \in Monitors : monitor_loop(t, MaxManualScans, Interval)

SpecToggle == Init /\ [][NextToggle]_vars

(***************************************************************************)
(* FairWait: as FairTick, with an interval of several seconds, so that a   *)
(* stop request can find a thread with a part of its interval still to      *)
(* wait.                                                                    *)
(***************************************************************************)
Wait(t) ==
    \/ L513(t)
    \/ L515(t)
    \/ monitor_loop(t, MaxWaitScans, LongInterval)

NextWait ==
    \/ start_monitoring
    \/ stop_monitoring
    \/ MarketClock
    \/ \E t \in Monitors : Wait(t)

FairWait ==
    /\ Init
    /\ [][NextWait]_vars
    /\ \A t \in Monitors : WF_vars(Wait(t))

(***************************************************************************)
(* FairScan: manual scans over universes of several instruments where the  *)
(* thread takes every step it can take by itself, and every upstream        *)
(* request is answered except the requests of lines 468-471 (reqMktData,    *)
(* reqFundamentalData), to which the code passes no timeout: with the       *)
(* engine connected the step of line 468 is taken when their replies have   *)
(* arrived, which may never happen (not connected, lines 313 and 347        *)
(* return at once).                                                         *)
(***************************************************************************)
NextScan ==
    \/ connect
    \/ _run_single_scan(MaxManualScans)
    \/ run_scan_ok(Manual, Pairs, MixedFrames)

FairScan ==
    /\ Init
    /\ [][NextScan]_vars
    /\ WF_vars(/\ pc[Manual] = "L468" => ~connected
               /\ run_scan_ok(Manual, Pairs, MixedFrames))

(***************************************************************************)
(* SpecCalc: one call of HeikinAshiCalculator.calculate, of                 *)
(* HeikinAshiCalculator.is_bullish or of the percent-change computation of  *)
(* _scan_stock, on every frame of up to CalcLen bars.                       *)
(***************************************************************************)
engine == <<connected, settings, results, scan_history, _callback, _running,
            _scan_thread, market_open, fg, pc, loc, nscans, cb_count, cb_last,
            upstream>>

call_calculate ==
    /\ calc.fn = "calculate" /\ ~calc.done
    /\ calc' = [calc EXCEPT !.ha_df = calculate(calc.df), !.done = TRUE]
    /\ UNCHANGED engine

call_is_bullish ==
    /\ calc.fn = "is_bullish" /\ ~calc.done
    /\ calc' = [calc EXCEPT !.bullish = is_bullish(calc.ha_df, calc.index),
                            !.done = TRUE]
    /\ UNCHANGED engine

call_change_percent ==
    /\ calc.fn = "change_percent" /\ ~calc.done
    /\ calc' = [calc EXCEPT !.pct = change_percent(calc.df, calc.last),
                            !.done = TRUE]
    /\ UNCHANGED engine

NextCalc ==
    \/ call_calculate
    \/ call_is_bullish
    \/ call_change_percent

SpecCalc == InitCalc /\ [][NextCalc]_vars

(***************************************************************************)
(* Properties.                                                             *)
(***************************************************************************)
\* the toggle test has been reached by the _scan_stock call that returned
PastVolumeCheck(t) ==
    pc[t] = "L534" /\ loc[t].retline \in {457, 459, 463, 465, 500}

\* what lines 455-465 let through
AnyEnabledBullish(s, ha, nb) ==
    \/ s.detect_ha_candle /\ ha
    \/ s.detect_normal_candle /\ nb
    \/ ~s.detect_ha_candle /\ ~s.detect_normal_candle

\* the conjunction of the specification
AllEnabledBullish(s, ha, nb) ==
    /\ ~s.detect_ha_candle \/ ha
    /\ ~s.detect_normal_candle \/ nb
    /\ s.detect_ha_candle \/ s.detect_normal_candle

C2_NoToggleNoResult ==
    \A t \in Threads :
        (/\ pc[t] = "L534"
         /\ ~settings.detect_ha_candle
         /\ ~settings.detect_normal_candle) => loc[t].ret = None

\* C3: a first-candle volume below the min_volume loaded by line 451 makes
\* _scan_stock return None at line 452, so the call goes on to the toggle
\* tests, and returns a result, only with a volume at or above that
\* min_volume; the result carries this volume.
C3_VolumeGate ==
    \A t \in Threads :
        /\ pc[t] \in {"L455", "L456", "L458", "L461", "L462", "L464", "L468"}
              => loc[t].vol >= loc[t].minvol
        /\ (pc[t] = "L534" /\ loc[t].retline # 445) =>
              /\ loc[t].vol < loc[t].minvol
                    => (loc[t].ret = None /\ loc[t].retline = 452)
              /\ loc[t].ret # None
                    => /\ loc[t].ret[1].first_candle_volume = loc[t].vol
                       /\ loc[t].vol >= loc[t].minvol

\* C3 witness: a first candle bullish both ways is turned down at line 452
C3_Witness ==
    \E t \in Threads :
        /\ pc[t] = "L534" /\ loc[t].retline = 452
        /\ loc[t].ha /\ loc[t].nb
        /\ loc[t].vol < loc[t].minvol

\* C4: when no bar of the frame is of today, _scan_stock returns no result,
\* for every settings object.
C4_NoSessionBarsNoResult ==
    \A t \in Threads :
        (pc[t] = "L534" /\ loc[t].no_today) => loc[t].ret = None

\* C5: a run_scan that finds the engine not connected goes to "return {}"
\* (line 515) and from there back to its caller, and neither step changes
\* results, scan_history or settings or invokes the callback.
C5_NotConnectedNoEffect ==
    [][\A t \in Threads :
          (\/ pc[t] = "L513" /\ ~connected /\ pc'[t] # "L513"
           \/ pc[t] = "L515" /\ pc'[t] # "L515")
          => /\ results' = results
             /\ scan_history' = scan_history
             /\ settings' = settings
             /\ cb_count' = cb_count
             /\ cb_last' = cb_last
             /\ pc[t] = "L513" => pc'[t] = "L515"
             /\ pc[t] = "L515" => pc'[t] \in {"dead", "L569"}]_vars

\* C5 witness: run_scan stands at "return {}" while there is a live set and
\* a registered callback
C5_Witness ==
    \E t \in Threads :
        pc[t] = "L515" /\ results # EmptyMap /\ _callback /\ ~connected

\* C6: no entry of scan_history has an empty result set.
C6_HistoryEntriesNonEmpty ==
    \A k \in 1..Len(scan_history) : scan_history[k].results # EmptyMap

\* the positions of run_scan from the archive step to the replacement
InFlight ==
    {"L520", "L521", "L528", "L443", "L448", "L451", "L455", "L456", "L458",
     "L461", "L462", "L464", "L468", "L534", "L538"}

\* C7: at most one run_scan is between its archive step and its
\* replacement of the live set.
C7_OneScanInFlight ==
    Cardinality({t \in Threads : pc[t] \in InFlight}) <= 1

\* C8: at most one monitor loop exists at any time.
C8_OneMonitorLoop ==
    Cardinality({t \in Monitors : pc[t] # "dead"}) <= 1

\* C9: once stop_monitoring has returned (and until start_monitoring is
\* called again) no monitor loop starts a run_scan.
C9_NoScanStartsAfterStop ==
    [][(~_running /\ fg = "idle") =>
          \A t \in Monitors : ~(pc[t] = "L562" /\ pc'[t] = "L513")]_vars

\* C10: all the settings loads of one run_scan see the same settings object.
C10_OneSnapshotPerScan ==
    \A t \in Threads : Cardinality(loc[t].seen) <= 1

\* the positions of run_scan after the archive step and before the
\* replacement has been done
AfterArchive ==
    {"L528", "L443", "L448", "L451", "L455", "L456", "L458", "L461", "L462",
     "L464", "L468", "L534", "L538"}

\* C11: while a scan is between its archive step and its replacement of the
\* live set, a non-empty live set is not also the last entry of the history.
C11_ArchiveAndReplaceAtomic ==
    \A t \in Threads :
        (pc[t] \in AfterArchive /\ results # EmptyMap /\ scan_history # << >>)
            => scan_history[Len(scan_history)].results # results

\* thread t leaves line 540-544: its run_scan, which was connected at line
\* 513, completes
Completes(t) == pc[t] = "L540" /\ pc'[t] # "L540"

C13_FailedFetchKeepsLiveSet ==
    [][\A t \in Threads :
          (pc[t] = "L538" /\ loc[t].fetch_failed /\ pc'[t] = "L540")
              => results' = results]_vars

\* C14: an exception in the evaluation of one instrument makes _scan_stock
\* return None with the candidates that remain and the results collected so
\* far untouched; the loop then goes on to the next candidate, reaches the
\* replacement step only with no candidate left, and publishes.
C14_FailureDoesNotAbort ==
    [][\A t \in Threads :
          /\ (pc[t] \in {"L448", "L468"} /\ pc'[t] = "L534"
                  /\ loc'[t].retline = 504)
                => /\ loc'[t].ret = None
                   /\ loc'[t].contracts = loc[t].contracts
                   /\ loc'[t].new_results = loc[t].new_results
                   /\ results' = results
          /\ (pc[t] = "L534" /\ loc[t].retline = 504 /\ pc'[t] # "L534")
                => /\ loc'[t].new_results = loc[t].new_results
                   /\ IF loc[t].contracts # << >>
                      THEN /\ pc'[t] = "L443"
                           /\ loc'[t].sym = Head(loc[t].contracts)
                           /\ loc'[t].contracts = Tail(loc[t].contracts)
                      ELSE pc'[t] = "L538"
          /\ (pc[t] # "L538" /\ pc'[t] = "L538")
                => loc'[t].contracts = << >>
          /\ (pc[t] = "L538" /\ pc'[t] # "L538")
                => (results' = loc[t].new_results /\ pc'[t] = "L540")]_vars

\* C14 witness: the evaluation of an instrument has raised while another
\* candidate is still to be evaluated
C14_Witness ==
    \E t \in Threads :
        /\ pc[t] = "L534" /\ loc[t].retline = 504
        /\ loc[t].contracts # << >>

\* C15: while the engine is running and no stop_monitoring call is in
\* progress, the monitor thread it holds is alive.
C15_LoopAliveWhileRunning ==
    (_running /\ fg = "idle" /\ _scan_thread # 0)
        => pc[_scan_thread] # "dead"

\* C16: the history holds fewer entries than one per scan after the first.
C16_HistoryBounded ==
    Len(scan_history) < MaxIdemScans - 1

\* two run_scan calls have completed since the data source last changed
TwoCallsDone ==
    /\ upstream # NoUpstream
    /\ pc[Manual] = "dead"
    /\ nscans = upstream.at + 2

\* 1 when the mapping is non-empty
Archived(live) == IF live # EmptyMap THEN 1 ELSE 0

C18_SettingsValid ==
    validate_settings(settings) = {}

\* C19: the tick of a monitor thread enters run_scan when the market is
\* open, and otherwise goes to the wait loop with the live set and the
\* history unchanged; a thread in its loop with the market open and the
\* engine running eventually enters run_scan (unless the engine is stopped
\* or the scans of the behaviour are used up).
C19_ScanOnlyWhenMarketOpen ==
    /\ [][\A t \in Monitors :
            (pc[t] = "L562" /\ pc'[t] # "L562")
                => IF market_open
                   THEN pc'[t] = "L513"
                   ELSE /\ pc'[t] = "L569"
                        /\ results' = results
                        /\ scan_history' = scan_history
                        /\ nscans' = nscans]_vars
    /\ \A t \in Monitors :
          (pc[t] \in InLoop /\ _running /\ market_open /\ nscans < MaxScans)
              ~> (pc[t] = "L513" \/ ~_running \/ nscans >= MaxScans)

\* C19 witness: a tick with the market closed has gone to the wait loop
\* without a scan
C19_Witness ==
    \E t \in Monitors :
        pc[t] = "L569" /\ ~market_open /\ _running /\ nscans = 0

\* C20: every step of a stop_monitoring call that found _running false
\* leaves _running false and leaves the live set, the history, the
\* settings and the threads as they are.
C20_StopWhenStoppedNoOp ==
    [][(\/ fg = "idle" /\ ~_running /\ L579
        \/ fg = "L581s" /\ (JoinExited \/ JoinTimeout))
          => /\ ~_running'
             /\ results' = results
             /\ scan_history' = scan_history
             /\ settings' = settings
             /\ _scan_thread' = _scan_thread
             /\ pc' = pc
             /\ fg' \in {"idle", "L581s"}]_vars

\* C20 witness: a stop_monitoring call that found the engine stopped is at
\* its join, with a live set published
C20_Witness ==
    fg = "L581s" /\ ~_running /\ results # EmptyMap

\* C21: a run_scan that has passed the connection test eventually reaches
\* the end of the scan (line 540, the live set replaced), whatever the
\* upstream does.
C21_ScanEventuallyPublishes ==
    (pc[Manual] = "L520") ~> (pc[Manual] = "L540")

\* C22: calculate returns a series as long as its input, empty for an empty
\* input, whose ha_open at the first row is the open of the first bar, with
\* ha_close[i] = (open + high + low + close) / 4 at every row and
\* ha_open[i] = (ha_open[i-1] + ha_close[i-1]) / 2 at every later row
\* (values are multiplied by Scale).
C22_CalculateShape ==
    (calc.fn = "calculate" /\ calc.done) =>
        LET df == calc.df
            ha == calc.ha_df
        IN  /\ Len(ha) = Len(df)
            /\ df = << >> => ha = << >>
            /\ df # << >> => ha[1].ha_open = Scale * df[1].open
            /\ \A i \in 1..Len(df) :
                  4 * ha[i].ha_close
                     = Scale * (df[i].open + df[i].high + df[i].low + df[i].close)
            /\ \A i \in 2..Len(df) :
                  2 * ha[i].ha_open = ha[i-1].ha_open + ha[i-1].ha_close

\* C22 witness: calculate has returned for a frame of CalcLen bars whose
\* last ha_open differs from the open of the last bar
C22_Witness ==
    /\ calc.fn = "calculate" /\ calc.done
    /\ Len(calc.df) = CalcLen
    /\ calc.ha_df[CalcLen].ha_open # Scale * calc.df[CalcLen].open

\* C23: on an empty series is_bullish is false; on a series of n rows
\* is_bullish(series, i) is true iff ha_close is strictly greater than
\* ha_open at row i (row n + i for a negative i), and
\* is_bullish(series, -1) = is_bullish(series, n - 1).
C23_IsBullishLastAndStrict ==
    (calc.fn = "is_bullish" /\ calc.done) =>
        LET ha == calc.ha_df
            n  == Len(ha)
            k  == IF calc.index < 0 THEN n + calc.index + 1 ELSE calc.index + 1
        IN  /\ ha = << >> => ~calc.bullish
            /\ ha # << >> => (calc.bullish <=> ha[k].ha_close > ha[k].ha_open)
            /\ calc.index = -1 => (calc.bullish <=> is_bullish(ha, n - 1))

\* C23 witness: is_bullish(series, -1) is true on a series whose first row
\* is not bullish
C23_Witness ==
    /\ calc.fn = "is_bullish" /\ calc.done
    /\ calc.index = -1 /\ calc.bullish
    /\ Len(calc.ha_df) > 1
    /\ ~is_bullish(calc.ha_df, 0)

\* the reference close of C24: the close of the second-to-last bar when
\* there are two bars or more, the close of the only bar otherwise
RefClose(df) ==
    IF Len(df) >= 2 THEN df[Len(df) - 1].close ELSE df[Len(df)].close

InWait == {"L569", "L571"}

\* C25: with the flag cleared, the wait loop starts no further sleep (the
\* test of line 569 breaks out, a sleep under way ends), the loop starts no
\* scan and the test of line 561 ends it; a thread that is waiting when the
\* flag is cleared does end, unless the engine is started again first.
C25_StopHonoredInWait ==
    /\ [][\A t \in Monitors :
            ~_running =>
                /\ (pc[t] = "L569" /\ pc'[t] # "L569") => pc'[t] = "L561"
                /\ (pc[t] = "L571" /\ pc'[t] # "L571")
                      => pc'[t] \in {"L569", "L561"}
                /\ (pc[t] = "L561" /\ pc'[t] # "L561") => pc'[t] = "dead"
                /\ pc[t] \in InWait => pc'[t] \notin {"L562", "L513"}]_vars
    /\ \A t \in Monitors :
          (~_running /\ pc[t] \in InWait) ~> (pc[t] = "dead" \/ _running)

\* C25 witness: the flag is cleared while a thread is at the test of line
\* 569 with a part of its interval still to wait
C25_Witness ==
    \E t \in Monitors :
        pc[t] = "L569" /\ ~_running /\ loc[t].i > 0
            /\ loc[t].i < LongInterval

\* C26: a new engine holds the default settings, an empty live set and an
\* empty history; the live set is changed only by line 538 of a run_scan
\* and the history only by lines 521-525 of a run_scan; connect,
\* disconnect, set_callback, update_settings, start_monitoring and
\* stop_monitoring leave both as they are.
C26_OnlyRunScanWrites ==
    /\ settings = DefaultSettings /\ results = EmptyMap /\ scan_history = << >>
    /\ [][(results' # results)
             => \E t \in Threads : pc[t] = "L538" /\ pc'[t] = "L540"]_vars
    /\ [][(scan_history' # scan_history)
             => \E t \in Threads : pc[t] = "L521" /\ pc'[t] = "L528"]_vars
    /\ [][(\/ connect
           \/ disconnect
           \/ set_callback
           \/ update_settings(FewSettings)
           \/ start_monitoring
           \/ stop_monitoring)
             => (results' = results /\ scan_history' = scan_history)]_vars

\* C26 witness: with a live set and a history, the settings have been
\* replaced, a callback registered, the monitor started and stopped and
\* the connection closed
C26_Witness ==
    /\ results # EmptyMap /\ scan_history # << >>
    /\ settings # DefaultSettings /\ _callback
    /\ ~_running /\ _scan_thread # 0 /\ fg = "idle"
    /\ ~connected

\* C27: the replacement step of a run_scan overwrites a non-empty live set
\* only when the history holds an entry for that set.
C27_SupersededSetArchived ==
    [][\A t \in Threads :
          (pc[t] = "L538" /\ pc'[t] = "L540" /\ results # EmptyMap)
              => \E k \in 1..Len(scan_history) :
                     scan_history[k].results = results]_vars

\* C28: a monitor thread that is not the one start_monitoring created last
\* does not pass the test of line 561 into another tick: it ends there.
C28_OldLoopDoesNotResume ==
    [][\A t \in Monitors :
          (pc[t] = "L561" /\ t # _scan_thread)
              => pc'[t] \in {"L561", "dead"}]_vars

\* C29: once stop_monitoring has returned, and until the engine is started
\* again, no step changes the live set or the history or invokes the
\* callback (there is no manual scan in SpecToggle).
C29_QuietAfterStop ==
    [][(~_running /\ fg = "idle")
          => /\ results' = results
             /\ scan_history' = scan_history
             /\ cb_count' = cb_count]_vars

\* C30: the timeframe tag of every history entry is the timeframe under
\* which each result of the entry was produced (the tag the result itself
\* carries in parameters_used).
C30_HistoryTagMatchesResults ==
    \A k \in 1..Len(scan_history) :
        \A sym \in DOMAIN scan_history[k].results :
            scan_history[k].results[sym].parameters_used.TF
                = scan_history[k].parameters

====
